---- MODULE Spec2Model ----
(***************************************************************************)
(* DALI bus master (DALIDriver.cpp): frame encoding, the response checker  *)
(* and the discovery / short-address assignment passes, together with the  *)
(* devices on the bus that answer the frames.                              *)
(*                                                                         *)
(* The controller is single threaded and blocks on every bus exchange, so  *)
(* one action is one straight-line piece of a function: the frames it      *)
(* sends, the reply it reads and the assignments it makes.  The devices    *)
(* react to every frame at the moment it is sent.                          *)
(***************************************************************************)
EXTENDS Integers, Sequences, FiniteSets, TLC

\* ------------------------------------------------------------------ constants
\* enum SpecialCommandOpAddr (DALIDriver.h)
SEARCHADDRH == 177
SEARCHADDRM == 179
SEARCHADDRL == 181
DTR0 == 163
INITIALISE == 165
RANDOMISE == 167
PROGRAM_SHORT_ADDR == 183
QUERY_SHORT_ADDR == 187
COMPARE == 169
TERMINATE == 161
WITHDRAW == 171
\* enum CommandOpCodes (DALIDriver.h)
QUERY_ACTUAL_LEVEL == 160
QUERY_PHM == 154
QUERY_FADE == 165
QUERY_GEAR_GROUPS_L == 192
QUERY_GEAR_GROUPS_H == 193
REMOVE_FROM_GROUP == 112
ADD_TO_GROUP == 96
SET_SCENE == 64
SET_FADE_TIME == 46
SET_FADE_RATE == 47
\* #define YES 0xFF
YES == 255
\* the "no short address" answer byte tested in get_highest_address
MASK == 255
\* int assignedAddresses[63]
TableSize == 63
\* for(int i = 23; i>=0; i--)
TopBit == 23
\* set_search_address(0xFFFFFF)
FullSearch == 16777215
\* leading byte of a 24-bit input-device frame
InputLead == 193

\* ------------------------------------------------------------------ bounds
\* devices on the bus in the exhaustively enumerated populations
MaxUnits == 3
\* number of deterministic spreads of random addresses for large populations
NumSpreads == 1
\* number of distinct negative values recv() may give for "no response"
NumTimeoutCodes == 2

\* ------------------------------------------------------------------ integers
Bit(v, n) == (v \div (2 ^ n)) % 2
\* v & ~(1 << n)
ClearBit(v, n) == v - Bit(v, n) * (2 ^ n)
\* v | (1 << n)
SetBit(v, n) == v + (1 - Bit(v, n)) * (2 ^ n)
\* conversion of an int to uint8_t
U8(v) == v % 256

\* ------------------------------------------------------------------ frames
\* a word handed to encoder.send (16 bits) or encoder.send_24 (24 bits)
Frame(len, word) == [len |-> len, word |-> word]
NoFrame == [len |-> 0, word |-> 0]

\* encoder.send(((uint16_t)address << 8) | opcode), both parameters uint8_t
send_command_special(address, opcode) ==
    Frame(16, U8(address) * 256 + U8(opcode))

\* encoder.send_24(((uint32_t)0xC1 << 16) | ((uint16_t)instance << 8) | opcode)
send_command_special_input(instance, opcode) ==
    Frame(24, InputLead * 65536 + U8(instance) * 256 + U8(opcode))

\* mask | x for mask = address & 0x80 and an int x, stored back into a uint8_t
OrHighBit(mask, x) == U8(IF Bit(x, 7) = 1 THEN x ELSE x + mask)

\* address = mask | ((address << 1) + 1)
StandardByte(address) == OrHighBit(Bit(address, 7) * 128, address * 2 + 1)
\* address = mask | (address << 1)
DirectByte(address) == OrHighBit(Bit(address, 7) * 128, address * 2)

send_command_standard(address, opcode) ==
    Frame(16, StandardByte(address) * 256 + U8(opcode))
send_command_direct(address, opcode) ==
    Frame(16, DirectByte(address) * 256 + U8(opcode))

\* the middle and the low byte in each other's frame
set_search_address_swapped(val) ==
    << send_command_special(SEARCHADDRH, val \div 65536),
       send_command_special(SEARCHADDRM, val % 256),
       send_command_special(SEARCHADDRL, (val \div 256) % 256) >>

\* three special frames: high, middle and low byte of the search address
set_search_address(val) ==
    << send_command_special(SEARCHADDRH, val \div 65536),
       send_command_special(SEARCHADDRM, (val \div 256) % 256),
       send_command_special(SEARCHADDRL, val % 256) >>

set_search_address_input(val) ==
    << send_command_special_input(5, val \div 65536),
       send_command_special_input(6, (val \div 256) % 256),
       send_command_special_input(7, val % 256) >>

\* ------------------------------------------------------------------ recv
\* what encoder.recv() gives when nothing answered: some negative value
TimeoutCodes == (0 - NumTimeoutCodes) .. (0 - 1)

\* a checker that compares the value as a byte
check_response_byte(expected, response) == response % 256 = expected

\* a checker that takes no response for a match
check_response_lenient(expected, response) ==
    response < 0 \/ response = expected

\* int response = encoder.recv(); if (response < 0) return false;
\* return (response == expected);
check_response(expected, response) ==
    IF response < 0 THEN FALSE ELSE response = expected

\* ------------------------------------------------------------------ devices
\* A device: its short address (MASK when it has none), its random address
\* and its initialisation state.
Device(short, rand, st) == [short |-> short, rand |-> rand, st |-> st]

\* the command a frame carries, for the population that listens to it
LightCmd(f) ==
    LET hi == f.word \div 256 IN
    IF f.len # 16 THEN "none"
    ELSE IF hi = SEARCHADDRH THEN "searchh"
    ELSE IF hi = SEARCHADDRM THEN "searchm"
    ELSE IF hi = SEARCHADDRL THEN "searchl"
    ELSE IF hi = COMPARE THEN "compare"
    ELSE IF hi = INITIALISE THEN "initialise"
    ELSE IF hi = RANDOMISE THEN "randomise"
    ELSE IF hi = WITHDRAW THEN "withdraw"
    ELSE IF hi = PROGRAM_SHORT_ADDR THEN "program"
    ELSE IF hi = QUERY_SHORT_ADDR THEN "queryshort"
    ELSE IF hi = TERMINATE THEN "terminate"
    ELSE "other"

InputCmd(f) ==
    LET sel == (f.word \div 256) % 256 IN
    IF f.len # 24 \/ f.word \div 65536 # InputLead THEN "none"
    ELSE IF sel = 5 THEN "searchh"
    ELSE IF sel = 6 THEN "searchm"
    ELSE IF sel = 7 THEN "searchl"
    ELSE IF sel = 3 THEN "compare"
    ELSE IF sel = 1 THEN "initialise"
    ELSE IF sel = 2 THEN "randomise"
    ELSE IF sel = 4 THEN "withdraw"
    ELSE IF sel = 8 THEN "program"
    ELSE IF sel = 0 THEN "terminate"
    ELSE "other"

\* the devices an INITIALISE payload addresses
Addressed(dev, data) ==
    \/ data = 0
    \/ data = 255 /\ dev.short = MASK
    \/ data # 255 /\ data % 2 = 1 /\ data < 128 /\ dev.short = data \div 2

\* the short address a PROGRAM SHORT ADDRESS payload stores
Programmed(dev, data) ==
    IF data = 255 THEN MASK
    ELSE IF data % 2 = 1 /\ data < 128 THEN data \div 2
    ELSE dev.short

Selected(dev, sa) == dev.st # "DISABLED" /\ dev.rand = sa

\* one population (devices, their common search address, the frame seen last)
\* after a frame carrying cmd with the data byte data; draw gives the random
\* address each device takes on RANDOMISE
React(pop, cmd, f, draw) ==
    LET data == f.word % 256
        twice == pop.prev = f
        devs == pop.devs
        sa == pop.sa
    IN
    IF cmd = "none" THEN pop
    ELSE IF cmd = "searchh" THEN
        [pop EXCEPT !.prev = f, !.sa = data * 65536 + (sa % 65536)]
    ELSE IF cmd = "searchm" THEN
        [pop EXCEPT !.prev = f,
            !.sa = (sa \div 65536) * 65536 + data * 256 + (sa % 256)]
    ELSE IF cmd = "searchl" THEN
        [pop EXCEPT !.prev = f, !.sa = (sa \div 256) * 256 + data]
    ELSE IF cmd = "initialise" THEN
        IF twice
        THEN [pop EXCEPT !.prev = NoFrame,
                !.devs = [d \in DOMAIN devs |->
                    IF Addressed(devs[d], data) /\ devs[d].st = "DISABLED"
                    THEN [devs[d] EXCEPT !.st = "ENABLED"] ELSE devs[d]]]
        ELSE [pop EXCEPT !.prev = f]
    ELSE IF cmd = "randomise" THEN
        IF twice
        THEN [pop EXCEPT !.prev = NoFrame,
                !.devs = [d \in DOMAIN devs |->
                    IF devs[d].st # "DISABLED" /\ d \in DOMAIN draw
                    THEN [devs[d] EXCEPT !.rand = draw[d]] ELSE devs[d]]]
        ELSE [pop EXCEPT !.prev = f]
    ELSE IF cmd = "withdraw" THEN
        [pop EXCEPT !.prev = f,
            !.devs = [d \in DOMAIN devs |->
                IF devs[d].st = "ENABLED" /\ devs[d].rand = sa
                THEN [devs[d] EXCEPT !.st = "WITHDRAWN"] ELSE devs[d]]]
    ELSE IF cmd = "program" THEN
        [pop EXCEPT !.prev = f,
            !.devs = [d \in DOMAIN devs |->
                IF Selected(devs[d], sa)
                THEN [devs[d] EXCEPT !.short = Programmed(devs[d], data)]
                ELSE devs[d]]]
    ELSE IF cmd = "terminate" THEN
        [pop EXCEPT !.prev = f,
            !.devs = [d \in DOMAIN devs |-> [devs[d] EXCEPT !.st = "DISABLED"]]]
    ELSE [pop EXCEPT !.prev = f]

\* the bus (lighting population, input population) after one frame
Deliver(b, f, draw) ==
    [lights |-> React(b.lights, LightCmd(f), f, draw),
     inputs |-> React(b.inputs, InputCmd(f), f, draw)]

RECURSIVE DeliverSeq(_, _, _)
DeliverSeq(b, fs, draw) ==
    IF fs = << >> THEN b
    ELSE DeliverSeq(Deliver(b, Head(fs), draw), Tail(fs), draw)

NoDraw == << >>

\* devices that answer YES to COMPARE
Answering(pop) ==
    {d \in DOMAIN pop.devs :
        pop.devs[d].st = "ENABLED" /\ pop.devs[d].rand <= pop.sa}

\* values recv() can give after COMPARE
CompareReplies(pop) == IF Answering(pop) # {} THEN {YES} ELSE TimeoutCodes

\* the answer byte of one device to QUERY SHORT ADDRESS
ShortAnswer(dev) == IF dev.short = MASK THEN 255 ELSE dev.short * 2 + 1

\* values recv() can give after QUERY SHORT ADDRESS
QueryShortReplies(pop) ==
    LET sel == {d \in DOMAIN pop.devs : Selected(pop.devs[d], pop.sa)} IN
    IF sel = {} THEN TimeoutCodes ELSE {ShortAnswer(pop.devs[d]) : d \in sel}

\* devices that take a new random address on RANDOMISE
Participants(pop) == {d \in DOMAIN pop.devs : pop.devs[d].st # "DISABLED"}

\* ------------------------------------------------------------------ search
\* bool yes = check_response(YES) after a COMPARE frame: every value recv()
\* can give then is classified the same way
CompareYes(pop) == \E r \in CompareReplies(pop) : check_response(YES, r)

\* searchAddr = searchAddr & (~mask) with mask = 1 << i
Probe(searchAddr, i) == ClearBit(searchAddr, i)

\* a loop body that never sets the bit again
ResolveKeep(probe, i, found) == probe

\* if(!yes) searchAddr = searchAddr | mask: the search address one pass of
\* the bit loop leaves
Resolve(probe, i, found) == IF found THEN probe ELSE SetBit(probe, i)

\* ------------------------------------------------------------------ draws
\* random addresses the devices may draw on RANDOMISE
RandPool == {0, 5921370, FullSearch}

\* a spread of pairwise distinct random addresses for a large population
Spread(k, d) == (d * (258114 * k + 1)) % (FullSearch + 1)

\* the draws of a set of participating devices: every choice from RandPool
\* for a small set, spreads of distinct addresses for a large one
Draws(P) ==
    IF Cardinality(P) <= MaxUnits THEN [P -> RandPool]
    ELSE {[d \in P |-> Spread(k, d)] : k \in 1 .. NumSpreads}

\* ------------------------------------------------------------------ state
VARIABLES
    bus,                \* the devices: lighting and input populations
    pc,                 \* the controller's position
    top,                \* the function the caller invoked
    reset,              \* parameter reset of the running assigning pass
    numAssignedShortAddresses,
    assignedAddresses,  \* int assignedAddresses[63]
    highestAssigned,    \* local of get_highest_address
    highest_addr,       \* value get_highest_address returned
    searchAddr,
    i,                  \* bit the 24-bit loop is at
    yes,                \* result of the COMPARE that opened the iteration
    num_logical_units,
    ret,                \* value the last assigning pass returned
    sent,               \* frames the last step sent, in order
    pass,               \* the pass that is running
    startCount,         \* assigned-count when the pass sent its first frame
    tally,              \* frames of the running pass, counted by command
    joined,             \* devices that took part when the pass opened
    firstNo,            \* the first COMPARE of the pass got no answer
    programmed,         \* devices sent PROGRAM SHORT ADDRESS since the call
    before,             \* the bus when the call was made
    resp,               \* value recv() gave the last query
    args,               \* arguments of the last device-control call
    flag,               \* bool the last group operation returned
    answers,            \* bytes get_highest_address read after QUERY SHORT ADDRESS
    outOfBounds         \* a write beyond assignedAddresses[62] happened

vars == << bus, pc, top, reset, numAssignedShortAddresses, assignedAddresses,
           highestAssigned, highest_addr, searchAddr, i, yes,
           num_logical_units, ret, sent, pass, startCount, tally, joined, firstNo,
           programmed, before, resp, args, flag, answers, outOfBounds >>

NoTally == [terminate |-> 0, compare |-> 0, program |-> 0, withdraw |-> 0]

\* int assignedAddresses[63] = {false}
EmptyTable == [a \in 0 .. TableSize - 1 |-> FALSE]


\* ------------------------------------------------------------------ Init
\* short addresses the devices may hold before the call (MASK: none)
LightShorts == {MASK, 0, 1}
InputShorts == {MASK, 0}

\* num_found values a caller passes to assign_addresses_input
NumFoundPool == {0, 1, TableSize - 1, TableSize}

\* Devices of one population are interchangeable, so they are numbered in the
\* order of the short addresses they hold; no two devices hold the same short
\* address before the call.
ShortsOf(n, pool) ==
    {f \in [1 .. n -> pool] :
        \A a, c \in 1 .. n : a < c => (f[a] < f[c] \/ (f[c] = MASK /\ f[a] = MASK))}

\* a lighting population whose first device holds the last short address, 63,
\* which the controller itself never assigns; the other device has none
LastShorts(n) ==
    IF n \in {1, 2}
    THEN {[d \in 1 .. n |-> IF d = 1 THEN TableSize ELSE MASK]}
    ELSE {}

\* sizes (lighting, input) of the populations: every small one, and the ones
\* that fill the 63-entry table
SmallPops ==
    {p \in (0 .. MaxUnits) \X (0 .. MaxUnits) : p[1] + p[2] <= MaxUnits}
LargePops ==
    {<< TableSize + 1, 0 >>, << TableSize - 1, 2 >>, << 0, TableSize + 1 >>}

Population(shorts) ==
    [devs |-> [d \in DOMAIN shorts |->
                  Device(shorts[d], FullSearch, "DISABLED")],
     sa |-> FullSearch,
     prev |-> NoFrame]

InitBus ==
    {[lights |-> Population(ls), inputs |-> Population(is)] :
        << ls, is >> \in
            UNION {(ShortsOf(p[1], LightShorts) \cup LastShorts(p[1]))
                        \X ShortsOf(p[2], InputShorts) : p \in SmallPops}
            \cup UNION {[1 .. p[1] -> {MASK}] \X [1 .. p[2] -> {MASK}] :
                     p \in LargePops}}

Init ==
    /\ bus \in InitBus
    /\ pc = "idle"
    /\ top = "none"
    /\ reset = FALSE
    /\ numAssignedShortAddresses = 0
    /\ assignedAddresses = EmptyTable
    /\ highestAssigned = -1
    /\ highest_addr = -1
    /\ searchAddr = FullSearch
    /\ i = TopBit
    /\ yes = FALSE
    /\ num_logical_units = 0
    /\ ret = 0
    /\ sent = << >>
    /\ pass = "none"
    /\ startCount = 0
    /\ tally = NoTally
    /\ joined = {}
    /\ firstNo = FALSE
    /\ programmed = {}
    /\ before = bus
    /\ resp = 0
    /\ args = << >>
    /\ flag = FALSE
    /\ answers = {}
    /\ outOfBounds = FALSE

\* ------------------------------------------------------------------ calls
\* the locals of assign_addresses / assign_addresses_input at entry
Enter(name, r, count, at) ==
    /\ pc = "idle"
    /\ top' = name
    /\ reset' = r
    /\ numAssignedShortAddresses' = U8(count)
    /\ assignedAddresses' = EmptyTable
    /\ pc' = at
    /\ before' = bus
    /\ sent' = << >>
    /\ UNCHANGED << bus, highestAssigned, highest_addr, searchAddr, i, yes,
                    num_logical_units, ret, pass, startCount, tally, joined,
                    firstNo, programmed, resp, args, flag,
                    answers, outOfBounds >>

\* int init(): num_logical_units = assign_addresses();
Call_init == Enter("init", FALSE, 0, "gha_start")

\* int assign_addresses(bool reset) with reset = true, which skips
\* get_highest_address (init makes the call with reset = false)
Call_assign_addresses == Enter("assign_addresses", TRUE, 0, "aa_start")

\* int assign_addresses_input(bool reset, int num_found)
Call_assign_addresses_input ==
    \E r \in BOOLEAN, nf \in NumFoundPool :
        Enter("assign_addresses_input", r, nf, "in_start")

\* ------------------------------------------------------------------ helpers
\* how many frames of fs carry cmd, for either population
Count(fs, cmd) ==
    Cardinality({k \in DOMAIN fs : LightCmd(fs[k]) = cmd \/ InputCmd(fs[k]) = cmd})

\* a count that stops at 2: none, one, more than one
Upto2(n) == IF n > 2 THEN 2 ELSE n

Tallied(t, fs) ==
    [terminate |-> Upto2(t.terminate + Count(fs, "terminate")),
     compare |-> Upto2(t.compare + Count(fs, "compare")),
     program |-> Upto2(t.program + Count(fs, "program")),
     withdraw |-> Upto2(t.withdraw + Count(fs, "withdraw"))]

\* the frames of the running pass are counted as they are sent
Tally == tally' = Tallied(tally, sent')

INITIALISE2(data) ==
    << send_command_special(INITIALISE, data),
       send_command_special(INITIALISE, data) >>
RANDOMISE2 ==
    << send_command_special(RANDOMISE, 0), send_command_special(RANDOMISE, 0) >>
INITIALISE2Input(data) ==
    << send_command_special_input(1, data),
       send_command_special_input(1, data) >>
RANDOMISE2Input ==
    << send_command_special_input(2, 0), send_command_special_input(2, 0) >>

\* TERMINATE sent twice
PassEndTwice ==
    << send_command_special(TERMINATE, 0), send_command_special(TERMINATE, 0) >>

\* the frames a pass sends between leaving its loop and returning
PassEnd == << send_command_special(TERMINATE, 0) >>
PassEndInput == << send_command_special_input(0, 0) >>

\* ------------------------------------------------------------------ get_highest_address
\* lines 201-210: INITIALISE twice for all devices, RANDOMISE twice
gha_start ==
    /\ pc = "gha_start"
    /\ LET b1 == DeliverSeq(bus, INITIALISE2(0), NoDraw) IN
       \E draw \in Draws(Participants(b1.lights)) :
           bus' = DeliverSeq(b1, RANDOMISE2, draw)
    /\ sent' = INITIALISE2(0) \o RANDOMISE2
    /\ highestAssigned' = -1
    /\ pass' = "get_highest_address"
    /\ startCount' = numAssignedShortAddresses
    /\ tally' = Tallied(NoTally, sent')
    /\ firstNo' = FALSE
    /\ joined' = {<< "light", d >> : d \in Participants(bus'.lights)}
    /\ pc' = "gha_top"
    /\ UNCHANGED << top, reset, numAssignedShortAddresses, assignedAddresses,
                    highest_addr, searchAddr, i, yes, num_logical_units, ret,
                    programmed, before, resp, args,
                    flag, outOfBounds >>
    /\ answers' = {}

\* lines 213-223: search address 0xFFFFFF, COMPARE, leave the loop on no YES
gha_top ==
    /\ pc = "gha_top"
    /\ LET fs == set_search_address(FullSearch)
                   \o << send_command_special(COMPARE, 0) >>
           b1 == DeliverSeq(bus, fs, NoDraw)
       IN /\ bus' = b1
          /\ sent' = fs
          /\ yes' = CompareYes(b1.lights)
          /\ firstNo' = IF tally.compare = 0
                        THEN Answering(b1.lights) = {} ELSE firstNo
          /\ pc' = IF yes' THEN "gha_bit" ELSE "gha_term"
    /\ searchAddr' = FullSearch
    /\ i' = TopBit
    /\ UNCHANGED << top, reset, numAssignedShortAddresses, assignedAddresses,
                    highestAssigned, highest_addr, num_logical_units, ret,
                    pass, startCount, programmed, before, outOfBounds >>
    /\ UNCHANGED << joined, resp, args, flag, answers >>
    /\ Tally

\* lines 224-237: one pass of the loop over bits 23 .. 0
gha_bit ==
    /\ pc = "gha_bit"
    /\ LET probe == Probe(searchAddr, i)
           fs == set_search_address(probe) \o << send_command_special(COMPARE, 0) >>
           b1 == DeliverSeq(bus, fs, NoDraw)
       IN /\ bus' = b1
          /\ sent' = fs
          /\ searchAddr' = Resolve(probe, i, CompareYes(b1.lights))
    /\ i' = i - 1
    /\ pc' = IF i = 0 THEN "gha_confirm" ELSE "gha_bit"
    /\ UNCHANGED << top, reset, numAssignedShortAddresses, assignedAddresses,
                    highestAssigned, highest_addr, yes, num_logical_units, ret,
                    pass, startCount, programmed, before, outOfBounds >>
    /\ UNCHANGED << joined, firstNo, resp, args, flag, answers >>
    /\ Tally

\* the address of the device read last
HighestAfterLast(highest, response) ==
    IF response % 256 # 255 THEN (response % 256) \div 2 ELSE highest

\* uint8_t short_addr = encoder.recv(); if (short_addr != 0xFF) { short_addr =
\* short_addr >> 1; if (short_addr > highestAssigned) highestAssigned = ... }
HighestAfter(highest, response) ==
    LET short_addr == U8(response) IN
    IF short_addr # 255 /\ short_addr \div 2 > highest
    THEN short_addr \div 2 ELSE highest

\* lines 238-253: COMPARE at the resolved address; on YES query the short
\* address and withdraw the device
gha_confirm ==
    /\ pc = "gha_confirm"
    /\ LET fs == set_search_address(searchAddr)
                   \o << send_command_special(COMPARE, 0) >>
           b1 == DeliverSeq(bus, fs, NoDraw)
           q == send_command_special(QUERY_SHORT_ADDR, 0)
           w == send_command_special(WITHDRAW, 0)
           b2 == Deliver(b1, q, NoDraw)
       IN IF CompareYes(b1.lights)
          THEN /\ \E response \in QueryShortReplies(b2.lights) :
                     /\ highestAssigned' = HighestAfter(highestAssigned, response)
                     /\ answers' = answers \cup {U8(response)}
               /\ bus' = Deliver(b2, w, NoDraw)
               /\ sent' = fs \o << q, w >>
          ELSE /\ bus' = b1
               /\ sent' = fs
               /\ UNCHANGED << highestAssigned, answers >>
    /\ pc' = "gha_refresh"
    /\ UNCHANGED << top, reset, numAssignedShortAddresses, assignedAddresses,
                    highest_addr, searchAddr, i, yes, num_logical_units, ret,
                    pass, startCount, programmed, before, outOfBounds >>
    /\ UNCHANGED << joined, firstNo, resp, args, flag >>
    /\ Tally

\* lines 254-256: INITIALISE twice, back to the top of the loop
gha_refresh ==
    /\ pc = "gha_refresh"
    /\ bus' = DeliverSeq(bus, INITIALISE2(0), NoDraw)
    /\ sent' = INITIALISE2(0)
    /\ pc' = "gha_top"
    /\ UNCHANGED << top, reset, numAssignedShortAddresses, assignedAddresses,
                    highestAssigned, highest_addr, searchAddr, i, yes,
                    num_logical_units, ret, pass, startCount, programmed,
                    before, outOfBounds >>
    /\ UNCHANGED << joined, firstNo, resp, args, flag, answers >>
    /\ Tally

\* lines 259-260: TERMINATE, return highestAssigned to assign_addresses
gha_term ==
    /\ pc = "gha_term"
    /\ LET fs == PassEnd IN
          /\ bus' = DeliverSeq(bus, fs, NoDraw)
          /\ sent' = fs
    /\ highest_addr' = highestAssigned
    /\ pc' = "aa_mark"
    /\ UNCHANGED << top, reset, numAssignedShortAddresses, assignedAddresses,
                    highestAssigned, searchAddr, i, yes, num_logical_units, ret,
                    pass, startCount, programmed, before, outOfBounds >>
    /\ UNCHANGED << joined, firstNo, resp, args, flag, answers >>
    /\ Tally

\* ------------------------------------------------------------------ assign_addresses
\* Lines 274-279: numAssignedShortAddresses = highest_addr + 1 and the loop
\* that marks assignedAddresses[0 .. count-1].  A count above 63 makes the
\* loop write past the end of the array: the write may change nothing the
\* function reads again, may land on the count or on reset, or may keep the
\* function from going on (the loop counter overwritten, a fault).
MarkedTable(count) == [a \in 0 .. TableSize - 1 |-> a < count]

aa_mark ==
    /\ pc = "aa_mark"
    /\ sent' = << >>
    /\ IF highest_addr >= 0
       THEN LET count == U8(highest_addr + 1) IN
            /\ assignedAddresses' = MarkedTable(count)
            /\ IF count <= TableSize
               THEN /\ numAssignedShortAddresses' = count
                    /\ pc' = "aa_start"
                    /\ UNCHANGED << reset, outOfBounds >>
               ELSE /\ outOfBounds' = TRUE
                    /\ \/ /\ numAssignedShortAddresses' = count
                          /\ pc' = "aa_start"
                          /\ UNCHANGED reset
                       \/ /\ numAssignedShortAddresses' \in {0, 1}
                          /\ pc' = "aa_start"
                          /\ UNCHANGED reset
                       \/ /\ numAssignedShortAddresses' = count
                          /\ pc' = "aa_start"
                          /\ reset' = TRUE
                       \/ /\ numAssignedShortAddresses' = count
                          /\ pc' = "aa_trap"
                          /\ UNCHANGED reset
       ELSE /\ pc' = "aa_start"
            /\ UNCHANGED << numAssignedShortAddresses, assignedAddresses,
                            reset, outOfBounds >>
    /\ UNCHANGED << bus, top, highestAssigned, highest_addr, searchAddr, i, yes,
                    num_logical_units, ret, pass, startCount, programmed,
                    before >>
    /\ UNCHANGED << joined, firstNo, resp, args, flag, answers >>
    /\ Tally

\* uint8_t opcode = reset ? 0x00 : 0xFF
OpeningPayload(r) == IF r THEN 0 ELSE 255

\* lines 281-288: INITIALISE twice with the opening payload, RANDOMISE twice
aa_start ==
    /\ pc = "aa_start"
    /\ LET b1 == DeliverSeq(bus, INITIALISE2(OpeningPayload(reset)), NoDraw) IN
       \E draw \in Draws(Participants(b1.lights)) :
           bus' = DeliverSeq(b1, RANDOMISE2, draw)
    /\ sent' = INITIALISE2(OpeningPayload(reset)) \o RANDOMISE2
    /\ pass' = "assign_addresses"
    /\ startCount' = numAssignedShortAddresses
    /\ tally' = Tallied(NoTally, sent')
    /\ firstNo' = FALSE
    /\ joined' = {<< "light", d >> : d \in Participants(bus'.lights)}
    /\ pc' = "aa_top"
    /\ UNCHANGED << top, reset, numAssignedShortAddresses, assignedAddresses,
                    highestAssigned, highest_addr, searchAddr, i, yes,
                    num_logical_units, ret, programmed, before, resp, args,
                    flag, answers, outOfBounds >>

\* if(numAssignedShortAddresses < 63)
BelowCap(count) == count < TableSize

\* lines 290-301: search address 0xFFFFFF, COMPARE, leave the loop on no YES,
\* skip the search when 63 addresses are assigned
aa_top ==
    /\ pc = "aa_top"
    /\ LET fs == set_search_address(FullSearch)
                   \o << send_command_special(COMPARE, 0) >>
           b1 == DeliverSeq(bus, fs, NoDraw)
       IN /\ bus' = b1
          /\ sent' = fs
          /\ yes' = CompareYes(b1.lights)
          /\ firstNo' = IF tally.compare = 0
                        THEN Answering(b1.lights) = {} ELSE firstNo
          /\ pc' = IF ~yes' THEN "aa_term"
                   ELSE IF BelowCap(numAssignedShortAddresses) THEN "aa_bit"
                   ELSE "aa_refresh"
    /\ searchAddr' = FullSearch
    /\ i' = TopBit
    /\ UNCHANGED << top, reset, numAssignedShortAddresses, assignedAddresses,
                    highestAssigned, highest_addr, num_logical_units, ret,
                    pass, startCount, programmed, before, outOfBounds >>
    /\ UNCHANGED << joined, resp, args, flag, answers >>
    /\ Tally

\* lines 303-316: one pass of the loop over bits 23 .. 0
aa_bit ==
    /\ pc = "aa_bit"
    /\ LET probe == Probe(searchAddr, i)
           fs == set_search_address(probe) \o << send_command_special(COMPARE, 0) >>
           b1 == DeliverSeq(bus, fs, NoDraw)
       IN /\ bus' = b1
          /\ sent' = fs
          /\ searchAddr' = Resolve(probe, i, CompareYes(b1.lights))
    /\ i' = i - 1
    /\ pc' = IF i = 0 THEN "aa_confirm" ELSE "aa_bit"
    /\ UNCHANGED << top, reset, numAssignedShortAddresses, assignedAddresses,
                    highestAssigned, highest_addr, yes, num_logical_units, ret,
                    pass, startCount, programmed, before, outOfBounds >>
    /\ UNCHANGED << joined, firstNo, resp, args, flag, answers >>
    /\ Tally

\* a data byte without the low bit set, which programs nothing
ProgramByteEven(new_addr) == new_addr * 2

\* a data byte that counts the addresses down from 62
ProgramByteDescending(new_addr) == (62 - new_addr) * 2 + 1

\* the data byte of PROGRAM SHORT ADDRESS: (new_addr << 1) + 1
ProgramByte(new_addr) == new_addr * 2 + 1

\* if (new_addr < 63) { if (assignedAddresses[new_addr] == true) {} else ...
MayProgram(new_addr, table) == new_addr < TableSize /\ ~table[new_addr]

\* a count that stays
NextCountSame(count) == count

\* a count that grows by two
NextCountByTwo(count) == U8(count + 2)

\* numAssignedShortAddresses++ on a uint8_t
NextCount(count) == U8(count + 1)

\* the devices a PROGRAM SHORT ADDRESS frame reaches
Reached(kind, pop) ==
    {<< kind, d >> : d \in {e \in DOMAIN pop.devs : Selected(pop.devs[e], pop.sa)}}

\* lines 317-345: COMPARE at the resolved address; on YES program the next
\* short address and withdraw the device
aa_confirm ==
    /\ pc = "aa_confirm"
    /\ LET fs == set_search_address(searchAddr)
                   \o << send_command_special(COMPARE, 0) >>
           b1 == DeliverSeq(bus, fs, NoDraw)
           new_addr == numAssignedShortAddresses
           pw == << send_command_special(PROGRAM_SHORT_ADDR, ProgramByte(new_addr)),
                    send_command_special(WITHDRAW, 0) >>
       IN IF CompareYes(b1.lights) /\ MayProgram(new_addr, assignedAddresses)
          THEN /\ bus' = DeliverSeq(b1, pw, NoDraw)
               /\ sent' = fs \o pw
               /\ numAssignedShortAddresses' = NextCount(numAssignedShortAddresses)
               /\ assignedAddresses' = [assignedAddresses EXCEPT ![new_addr] = TRUE]
               /\ programmed' = programmed \cup Reached("light", b1.lights)
          ELSE /\ bus' = b1
               /\ sent' = fs
               /\ UNCHANGED << numAssignedShortAddresses, assignedAddresses,
                               programmed >>
    /\ pc' = "aa_refresh"
    /\ UNCHANGED << top, reset, highestAssigned, highest_addr, searchAddr, i, yes,
                    num_logical_units, ret, pass, startCount, before,
                    outOfBounds >>
    /\ UNCHANGED << joined, firstNo, resp, args, flag, answers >>
    /\ Tally

\* payload of the INITIALISE that closes every iteration
RefreshPayload == 0

\* lines 347-349: INITIALISE twice, back to the top of the loop
aa_refresh ==
    /\ pc = "aa_refresh"
    /\ bus' = DeliverSeq(bus, INITIALISE2(RefreshPayload), NoDraw)
    /\ sent' = INITIALISE2(RefreshPayload)
    /\ pc' = "aa_top"
    /\ UNCHANGED << top, reset, numAssignedShortAddresses, assignedAddresses,
                    highestAssigned, highest_addr, searchAddr, i, yes,
                    num_logical_units, ret, pass, startCount, programmed,
                    before, outOfBounds >>
    /\ UNCHANGED << joined, firstNo, resp, args, flag, answers >>
    /\ Tally

\* lines 352-353: TERMINATE, return numAssignedShortAddresses
aa_term ==
    /\ pc = "aa_term"
    /\ LET fs == PassEnd IN
          /\ bus' = DeliverSeq(bus, fs, NoDraw)
          /\ sent' = fs
    /\ ret' = numAssignedShortAddresses
    /\ pc' = IF top = "init" THEN "init_input" ELSE "done"
    /\ UNCHANGED << top, reset, numAssignedShortAddresses, assignedAddresses,
                    highestAssigned, highest_addr, searchAddr, i, yes,
                    num_logical_units, pass, startCount, programmed, before,
                    outOfBounds >>
    /\ UNCHANGED << joined, firstNo, resp, args, flag, answers >>
    /\ Tally

\* ------------------------------------------------------------------ init
\* line 195-196: num_logical_units = assign_addresses(); then the call
\* assign_addresses_input(true, num_logical_units)
init_input ==
    /\ pc = "init_input"
    /\ num_logical_units' = ret
    /\ reset' = TRUE
    /\ numAssignedShortAddresses' = U8(ret)
    /\ assignedAddresses' = EmptyTable
    /\ sent' = << >>
    /\ pc' = "in_start"
    /\ UNCHANGED << bus, top, highestAssigned, highest_addr, searchAddr, i, yes,
                    ret, pass, startCount, programmed, before, outOfBounds >>
    /\ UNCHANGED << joined, firstNo, resp, args, flag, answers >>
    /\ Tally

\* line 196-197: num_logical_units += (value returned); return num_logical_units
init_return ==
    /\ pc = "init_return"
    /\ num_logical_units' = num_logical_units + ret
    /\ sent' = << >>
    /\ pc' = "done"
    /\ UNCHANGED << bus, top, reset, numAssignedShortAddresses,
                    assignedAddresses, highestAssigned, highest_addr,
                    searchAddr, i, yes, ret, pass, startCount, programmed, before,
                    outOfBounds >>
    /\ UNCHANGED << joined, firstNo, resp, args, flag, answers >>
    /\ Tally

\* ------------------------------------------------------------------ assign_addresses_input
\* send_command_special_input(0x01, 0xFF): the opening payload does not
\* depend on reset
OpeningPayloadInput(r) == 255

\* lines 365-372: INITIALISE twice, RANDOMISE twice, in input frames
in_start ==
    /\ pc = "in_start"
    /\ LET b1 == DeliverSeq(bus, INITIALISE2Input(OpeningPayloadInput(reset)),
                            NoDraw) IN
       \E draw \in Draws(Participants(b1.inputs)) :
           bus' = DeliverSeq(b1, RANDOMISE2Input, draw)
    /\ sent' = INITIALISE2Input(OpeningPayloadInput(reset)) \o RANDOMISE2Input
    /\ pass' = "assign_addresses_input"
    /\ startCount' = numAssignedShortAddresses
    /\ tally' = Tallied(NoTally, sent')
    /\ firstNo' = FALSE
    /\ joined' = {<< "input", d >> : d \in Participants(bus'.inputs)}
    /\ pc' = "in_top"
    /\ UNCHANGED << top, reset, numAssignedShortAddresses, assignedAddresses,
                    highestAssigned, highest_addr, searchAddr, i, yes,
                    num_logical_units, ret, programmed, before, resp, args,
                    flag, answers, outOfBounds >>

\* lines 374-386: search address 0xFFFFFF, COMPARE, leave the loop on no YES,
\* skip the search when the count has reached 63
in_top ==
    /\ pc = "in_top"
    /\ LET fs == set_search_address_input(FullSearch)
                   \o << send_command_special_input(3, 0) >>
           b1 == DeliverSeq(bus, fs, NoDraw)
       IN /\ bus' = b1
          /\ sent' = fs
          /\ yes' = CompareYes(b1.inputs)
          /\ firstNo' = IF tally.compare = 0
                        THEN Answering(b1.inputs) = {} ELSE firstNo
          /\ pc' = IF ~yes' THEN "in_term"
                   ELSE IF BelowCap(numAssignedShortAddresses) THEN "in_bit"
                   ELSE "in_refresh"
    /\ searchAddr' = FullSearch
    /\ i' = TopBit
    /\ UNCHANGED << top, reset, numAssignedShortAddresses, assignedAddresses,
                    highestAssigned, highest_addr, num_logical_units, ret,
                    pass, startCount, programmed, before, outOfBounds >>
    /\ UNCHANGED << joined, resp, args, flag, answers >>
    /\ Tally

\* lines 388-401: one pass of the loop over bits 23 .. 0
in_bit ==
    /\ pc = "in_bit"
    /\ LET probe == Probe(searchAddr, i)
           fs == set_search_address_input(probe) \o << send_command_special_input(3, 0) >>
           b1 == DeliverSeq(bus, fs, NoDraw)
       IN /\ bus' = b1
          /\ sent' = fs
          /\ searchAddr' = Resolve(probe, i, CompareYes(b1.inputs))
    /\ i' = i - 1
    /\ pc' = IF i = 0 THEN "in_confirm" ELSE "in_bit"
    /\ UNCHANGED << top, reset, numAssignedShortAddresses, assignedAddresses,
                    highestAssigned, highest_addr, yes, num_logical_units, ret,
                    pass, startCount, programmed, before, outOfBounds >>
    /\ UNCHANGED << joined, firstNo, resp, args, flag, answers >>
    /\ Tally

\* lines 402-430: COMPARE at the resolved address; on YES program the next
\* short address and withdraw the device
in_confirm ==
    /\ pc = "in_confirm"
    /\ LET fs == set_search_address_input(searchAddr)
                   \o << send_command_special_input(3, 0) >>
           b1 == DeliverSeq(bus, fs, NoDraw)
           new_addr == numAssignedShortAddresses
           pw == << send_command_special_input(8, ProgramByte(new_addr)),
                    send_command_special_input(4, 0) >>
       IN IF CompareYes(b1.inputs) /\ MayProgram(new_addr, assignedAddresses)
          THEN /\ bus' = DeliverSeq(b1, pw, NoDraw)
               /\ sent' = fs \o pw
               /\ numAssignedShortAddresses' = NextCount(numAssignedShortAddresses)
               /\ assignedAddresses' = [assignedAddresses EXCEPT ![new_addr] = TRUE]
               /\ programmed' = programmed \cup Reached("input", b1.inputs)
          ELSE /\ bus' = b1
               /\ sent' = fs
               /\ UNCHANGED << numAssignedShortAddresses, assignedAddresses,
                               programmed >>
    /\ pc' = "in_refresh"
    /\ UNCHANGED << top, reset, highestAssigned, highest_addr, searchAddr, i, yes,
                    num_logical_units, ret, pass, startCount, before,
                    outOfBounds >>
    /\ UNCHANGED << joined, firstNo, resp, args, flag, answers >>
    /\ Tally

\* lines 432-434: INITIALISE twice, back to the top of the loop
in_refresh ==
    /\ pc = "in_refresh"
    /\ bus' = DeliverSeq(bus, INITIALISE2Input(RefreshPayload), NoDraw)
    /\ sent' = INITIALISE2Input(RefreshPayload)
    /\ pc' = "in_top"
    /\ UNCHANGED << top, reset, numAssignedShortAddresses, assignedAddresses,
                    highestAssigned, highest_addr, searchAddr, i, yes,
                    num_logical_units, ret, pass, startCount, programmed,
                    before, outOfBounds >>
    /\ UNCHANGED << joined, firstNo, resp, args, flag, answers >>
    /\ Tally

\* lines 437-438: TERMINATE, return numAssignedShortAddresses
in_term ==
    /\ pc = "in_term"
    /\ LET fs == PassEndInput IN
          /\ bus' = DeliverSeq(bus, fs, NoDraw)
          /\ sent' = fs
    /\ ret' = numAssignedShortAddresses
    /\ pc' = IF top = "init" THEN "init_return" ELSE "done"
    /\ UNCHANGED << top, reset, numAssignedShortAddresses, assignedAddresses,
                    highestAssigned, highest_addr, searchAddr, i, yes,
                    num_logical_units, pass, startCount, programmed, before,
                    outOfBounds >>
    /\ UNCHANGED << joined, firstNo, resp, args, flag, answers >>
    /\ Tally

\* ------------------------------------------------------------------ queries
\* short addresses a caller queries
QueryAddrs == {0, 1}

\* bytes a device may answer a query with
AnswerBytes == {0, 170, 254, 255}

\* values recv() can give after a query frame: an answer byte when a lighting
\* device holds the short address the frame names, no response otherwise
QueryReplies(pop, f) ==
    IF \E d \in DOMAIN pop.devs :
          pop.devs[d].short # MASK /\ f.word \div 256 = pop.devs[d].short * 2 + 1
    THEN AnswerBytes ELSE TimeoutCodes

\* uint8_t resp = encoder.recv(); return resp;
QueryReturn(response) == U8(response)

\* send_command_standard(addr, opcode), one recv(), the value returned
Query(name, opcode) ==
    /\ pc = "idle"
    /\ \E addr \in QueryAddrs :
          LET f == send_command_standard(addr, opcode) IN
          /\ bus' = Deliver(bus, f, NoDraw)
          /\ sent' = << f >>
          /\ \E response \in QueryReplies(bus.lights, f) :
                /\ resp' = response
                /\ ret' = QueryReturn(response)
          /\ args' = << addr >>
    /\ top' = name
    /\ pc' = "done"
    /\ before' = bus
    /\ UNCHANGED << reset, numAssignedShortAddresses, assignedAddresses,
                    highestAssigned, highest_addr, searchAddr, i, yes,
                    num_logical_units, pass, startCount, tally, joined, firstNo,
                    programmed, flag, answers, outOfBounds >>

get_level == Query("get_level", QUERY_ACTUAL_LEVEL)
get_phm == Query("get_phm", QUERY_PHM)
get_fade == Query("get_fade", QUERY_FADE)

\* ------------------------------------------------------------------ groups
\* group numbers a caller passes
Groups == 0 .. 15

\* the command sent once
send_once(addr, opcode) == << send_command_standard(addr, opcode) >>

\* send_command_standard(addr, opcode) twice
send_twice(addr, opcode) ==
    << send_command_standard(addr, opcode), send_command_standard(addr, opcode) >>

\* the query of the other status byte
GroupQuerySwapped(group) ==
    IF group < 8 THEN QUERY_GEAR_GROUPS_H ELSE QUERY_GEAR_GROUPS_L

\* uint8_t cmd = group < 8 ? QUERY_GEAR_GROUPS_L : QUERY_GEAR_GROUPS_H
GroupQuery(group) ==
    IF group < 8 THEN QUERY_GEAR_GROUPS_L ELSE QUERY_GEAR_GROUPS_H

\* uint8_t resp = encoder.recv(); uint8_t mask = 1 << (group % 8);
\* bool contained = resp & mask
Contained(response, group) == Bit(U8(response), group % 8) = 1

\* the command sent twice, the query, one recv(), the bool returned:
\* contained for add_to_group, !contained for remove_from_group
GroupOp(name, opcode, whenContained) ==
    /\ pc = "idle"
    /\ \E addr \in QueryAddrs, group \in Groups :
          LET q == send_command_standard(addr, GroupQuery(group))
              fs == send_twice(addr, opcode + group) \o << q >>
          IN /\ bus' = DeliverSeq(bus, fs, NoDraw)
             /\ sent' = fs
             /\ args' = << addr, group >>
             /\ \E response \in QueryReplies(bus.lights, q) :
                   /\ resp' = response
                   /\ flag' = (Contained(response, group) = whenContained)
    /\ top' = name
    /\ pc' = "done"
    /\ before' = bus
    /\ UNCHANGED << reset, numAssignedShortAddresses, assignedAddresses,
                    highestAssigned, highest_addr, searchAddr, i, yes,
                    num_logical_units, ret, pass, startCount, tally, joined,
                    firstNo, programmed, answers, outOfBounds >>

add_to_group == GroupOp("add_to_group", ADD_TO_GROUP, TRUE)
remove_from_group == GroupOp("remove_from_group", REMOVE_FROM_GROUP, FALSE)

\* ------------------------------------------------------------------ settings
\* addresses (two short addresses and a group address), parameter values and
\* scene numbers a caller passes to the three setters
SettingAddrs == {0, 63, 143}
SettingValues == {0, 254}
Scenes == {0, 15}

\* send_command_special(DTR0, value); send_twice(addr, opcode)
Setting(name, addr, value, opcode) ==
    /\ pc = "idle"
    /\ LET fs == << send_command_special(DTR0, value) >> \o send_twice(addr, opcode)
       IN /\ bus' = DeliverSeq(bus, fs, NoDraw)
          /\ sent' = fs
    /\ top' = name
    /\ pc' = "done"
    /\ before' = bus
    /\ UNCHANGED << reset, numAssignedShortAddresses, assignedAddresses,
                    highestAssigned, highest_addr, searchAddr, i, yes,
                    num_logical_units, ret, pass, startCount, tally, joined,
                    firstNo, programmed, resp, flag, answers,
                    outOfBounds >>

\* void set_fade_time(uint8_t addr, uint8_t time)
set_fade_time ==
    \E addr \in SettingAddrs, time \in SettingValues :
        /\ args' = << addr, time >>
        /\ Setting("set_fade_time", addr, time, SET_FADE_TIME)

\* void set_fade_rate(uint8_t addr, uint8_t rate)
set_fade_rate ==
    \E addr \in SettingAddrs, rate \in SettingValues :
        /\ args' = << addr, rate >>
        /\ Setting("set_fade_rate", addr, rate, SET_FADE_RATE)

\* void set_scene(uint8_t addr, uint8_t scene, uint8_t level)
set_scene ==
    \E addr \in SettingAddrs, scene \in Scenes, level \in SettingValues :
        /\ args' = << addr, scene, level >>
        /\ Setting("set_scene", addr, level, SET_SCENE + scene)

\* ------------------------------------------------------------------ commands
\* addresses and opcodes a caller passes to the two frame encoders
CommandAddrs == {0, 1, 63, 64, 127}
CommandOpcodes == {160}

\* a call of send_command_standard or send_command_direct: one frame
Command(name, encoded) ==
    /\ pc = "idle"
    /\ bus' = Deliver(bus, encoded, NoDraw)
    /\ sent' = << encoded >>
    /\ top' = name
    /\ pc' = "done"
    /\ before' = bus
    /\ UNCHANGED << reset, numAssignedShortAddresses, assignedAddresses,
                    highestAssigned, highest_addr, searchAddr, i, yes,
                    num_logical_units, ret, pass, startCount, tally, joined,
                    firstNo, programmed, resp, flag, answers,
                    outOfBounds >>

Call_send_command_standard ==
    \E address \in CommandAddrs, opcode \in CommandOpcodes :
        /\ args' = << address, opcode >>
        /\ Command("send_command_standard", send_command_standard(address, opcode))

Call_send_command_direct ==
    \E address \in CommandAddrs, opcode \in CommandOpcodes :
        /\ args' = << address, opcode >>
        /\ Command("send_command_direct", send_command_direct(address, opcode))

\* ------------------------------------------------------------------ get_group_addr
\* a group number returned as it came
get_group_addr_plain(group_number) == group_number

\* uint8_t mask = 1 << 7; return mask | group_number;
get_group_addr(group_number) == OrHighBit(128, group_number)

\* group numbers and group addresses a caller passes
GroupAddrArgs == Groups \cup {get_group_addr(g) : g \in Groups}

Call_get_group_addr ==
    /\ pc = "idle"
    /\ \E group_number \in GroupAddrArgs :
          /\ args' = << group_number >>
          /\ ret' = get_group_addr(group_number)
    /\ sent' = << >>
    /\ top' = "get_group_addr"
    /\ pc' = "done"
    /\ before' = bus
    /\ UNCHANGED << bus, reset, numAssignedShortAddresses, assignedAddresses,
                    highestAssigned, highest_addr, searchAddr, i, yes,
                    num_logical_units, pass, startCount, tally, joined,
                    firstNo, programmed, resp, flag, answers,
                    outOfBounds >>

\* ------------------------------------------------------------------ set_search_address
\* 24-bit values a caller passes as the search address
SearchValues == {0, 1, 255, 256, 65535, 65536, 1193046, 5921370, FullSearch}

\* a call of set_search_address or set_search_address_input: three frames
SetSearch(name, val, frames) ==
    /\ pc = "idle"
    /\ bus' = DeliverSeq(bus, frames, NoDraw)
    /\ sent' = frames
    /\ args' = << val >>
    /\ top' = name
    /\ pc' = "done"
    /\ before' = bus
    /\ UNCHANGED << reset, numAssignedShortAddresses, assignedAddresses,
                    highestAssigned, highest_addr, searchAddr, i, yes,
                    num_logical_units, ret, pass, startCount, tally, joined,
                    firstNo, programmed, resp, flag, answers,
                    outOfBounds >>

Call_set_search_address ==
    \E val \in SearchValues :
        SetSearch("set_search_address", val, set_search_address(val))

Call_set_search_address_input ==
    \E val \in SearchValues :
        SetSearch("set_search_address_input", val, set_search_address_input(val))

\* ------------------------------------------------------------------ check_response
\* expected bytes a caller passes
ExpectedBytes == {0, 170, YES}

\* bool check_response(uint8_t expected): one recv(), whatever it gives
Call_check_response ==
    /\ pc = "idle"
    /\ \E expected \in ExpectedBytes, response \in TimeoutCodes \cup AnswerBytes :
          /\ args' = << expected >>
          /\ resp' = response
          /\ flag' = check_response(expected, response)
    /\ sent' = << >>
    /\ top' = "check_response"
    /\ pc' = "done"
    /\ before' = bus
    /\ UNCHANGED << bus, reset, numAssignedShortAddresses, assignedAddresses,
                    highestAssigned, highest_addr, searchAddr, i, yes,
                    num_logical_units, ret, pass, startCount, tally, joined,
                    firstNo, programmed, answers, outOfBounds >>

\* ------------------------------------------------------------------ Next
Next ==
    \/ Call_init
    \/ Call_assign_addresses
    \/ Call_assign_addresses_input
    \/ gha_start
    \/ gha_top
    \/ gha_bit
    \/ gha_confirm
    \/ gha_refresh
    \/ gha_term
    \/ aa_mark
    \/ aa_start
    \/ aa_top
    \/ aa_bit
    \/ aa_confirm
    \/ aa_refresh
    \/ aa_term
    \/ init_input
    \/ init_return
    \/ in_start
    \/ in_top
    \/ in_bit
    \/ in_confirm
    \/ in_refresh
    \/ in_term
    \/ get_level
    \/ get_phm
    \/ get_fade
    \/ add_to_group
    \/ remove_from_group
    \/ set_fade_time
    \/ set_fade_rate
    \/ set_scene
    \/ Call_send_command_standard
    \/ Call_send_command_direct
    \/ Call_get_group_addr
    \/ Call_set_search_address
    \/ Call_set_search_address_input
    \/ Call_check_response

Spec == Init /\ [][Next]_vars

\* ------------------------------------------------------------------ properties
LightIds == {<< "light", d >> : d \in DOMAIN bus.lights.devs}
InputIds == {<< "input", d >> : d \in DOMAIN bus.inputs.devs}

DistinctRands(pop) ==
    \A a, c \in DOMAIN pop.devs : a # c => pop.devs[a].rand # pop.devs[c].rand

UniqueShorts(pop) ==
    \A a, c \in DOMAIN pop.devs :
        (a # c /\ pop.devs[a].short # MASK) => pop.devs[a].short # pop.devs[c].short

HeldShorts(pop) == {pop.devs[d].short : d \in DOMAIN pop.devs}

\* assign_addresses has just returned
AssignReturned == pass = "assign_addresses" /\ pc \in {"done", "init_input"}

LoopPcs ==
    {"gha_top", "gha_bit", "gha_confirm", "gha_refresh",
     "aa_top", "aa_bit", "aa_confirm", "aa_refresh",
     "in_top", "in_bit", "in_confirm", "in_refresh"}
TermPcs == {"gha_term", "aa_term", "in_term"}
QueryNames == {"get_level", "get_phm", "get_fade"}

\* C1: when assign_addresses has run to completion over N <= 63 lighting
\* devices that all took part in the pass with pairwise distinct random
\* addresses, every one of the N devices was programmed, the short addresses
\* are pairwise distinct and are exactly 0 .. N-1, and N is returned.
C1_DiscoveryAssignsAll ==
    LET N == Cardinality(LightIds) IN
    (AssignReturned /\ N <= TableSize /\ joined = LightIds
        /\ DistinctRands(bus.lights))
    => /\ programmed = LightIds
       /\ UniqueShorts(bus.lights)
       /\ HeldShorts(bus.lights) = 0 .. N - 1
       /\ ret = N

\* three or more devices, all discovered by one completed pass
C1_Witness ==
    /\ AssignReturned
    /\ Cardinality(LightIds) >= 3
    /\ joined = LightIds
    /\ DistinctRands(bus.lights)
    /\ ret = Cardinality(LightIds)

\* C2: in incremental discovery (init, which calls assign_addresses with
\* reset = false) a lighting device that held a short address when the call was
\* made is never sent PROGRAM SHORT ADDRESS and keeps that short address.
C2_AddressedUntouched ==
    (top = "init" /\ ~outOfBounds)
    => \A d \in DOMAIN before.lights.devs :
          before.lights.devs[d].short # MASK
          => /\ << "light", d >> \notin programmed
             /\ bus.lights.devs[d].short = before.lights.devs[d].short

\* C3: in every state no two devices of one population hold the same short
\* address.
C3_ShortsUnique == UniqueShorts(bus.lights) /\ UniqueShorts(bus.inputs)

\* C4: when more than 63 devices of one population take part in a pass and
\* the pass has brought the count of assigned addresses to 63, the step taken
\* at the top of the loop leaves the loop for TERMINATE.
C4_PassStopsAtCap ==
    [][(pc \in {"aa_top", "in_top"} /\ Cardinality(joined) > TableSize
            /\ startCount < TableSize
            /\ numAssignedShortAddresses >= TableSize)
        => pc' \in {"aa_term", "in_term"}]_vars

\* C5: when init has returned after discovering (programming) every device
\* on a bus of L lighting and I input devices, L + I <= 63, that held pairwise
\* distinct random addresses, num_logical_units is L + I.
C5_InitReturnsUnits ==
    LET L == Cardinality(LightIds)
        I == Cardinality(InputIds)
    IN (top = "init" /\ pc = "done" /\ ~outOfBounds /\ L + I <= TableSize
           /\ DistinctRands(bus.lights) /\ DistinctRands(bus.inputs)
           /\ programmed = LightIds \cup InputIds)
       => num_logical_units = L + I

\* C6: when incremental discovery has returned, having started with short
\* addresses 0 .. k-1 assigned, which get_highest_address reported, and m
\* devices unaddressed (k + m <= 63, pairwise distinct random addresses), the
\* m new devices hold exactly k .. k+m-1.
C6_IncrementalNumbering ==
    LET old == {d \in DOMAIN before.lights.devs :
                    before.lights.devs[d].short # MASK}
        new == DOMAIN before.lights.devs \ old
        k == Cardinality(old)
        m == Cardinality(new)
    IN (top = "init" /\ AssignReturned /\ ~outOfBounds
           /\ HeldShorts(before.lights) \ {MASK} = 0 .. k - 1
           /\ startCount = k
           /\ k + m <= TableSize /\ DistinctRands(bus.lights))
       => {bus.lights.devs[d].short : d \in new} = k .. k + m - 1

\* C7: when assign_addresses has returned, two devices that took part in the
\* pass with the same random address each hold a short address of their own.
C7_CollisionResolved ==
    (AssignReturned /\ ~outOfBounds)
    => \A a, c \in DOMAIN bus.lights.devs :
          (a # c /\ << "light", a >> \in joined /\ << "light", c >> \in joined
              /\ bus.lights.devs[a].rand = bus.lights.devs[c].rand)
          => /\ bus.lights.devs[a].short # MASK
             /\ bus.lights.devs[c].short # MASK
             /\ bus.lights.devs[a].short # bus.lights.devs[c].short

\* C8: a query whose recv() gave no response returns a value that is not one
\* of the answer bytes 0 .. 255.
C8_TimeoutDistinguishable ==
    (top \in QueryNames /\ pc = "done" /\ resp < 0) => ret \notin 0 .. 255

\* C9: once the first COMPARE of a pass got no YES, the pass has sent that one
\* COMPARE, no PROGRAM SHORT ADDRESS and no WITHDRAW; the step that follows
\* the COMPARE sends TERMINATE and nothing else, and an assigning pass returns
\* the count it started with.
C9_ZeroDevices ==
    [][firstNo'
        => /\ tally'.compare = 1
           /\ tally'.program = 0
           /\ tally'.withdraw = 0
           /\ (firstNo /\ tally.terminate = 0)
              => /\ Len(sent') = 1
                 /\ Count(sent', "terminate") = 1
                 /\ pass # "get_highest_address" => ret' = startCount]_vars

\* an assigning pass that started with a count above 0 found no device and
\* returned
C9_Witness ==
    /\ firstNo
    /\ tally.terminate = 1
    /\ pass = "assign_addresses_input"
    /\ startCount > 0
    /\ ret = startCount
    /\ pc = "done"

\* C10: while the loop of a pass is running the pass has sent no TERMINATE;
\* once the pass has returned it has sent exactly one, and that frame was the
\* last one it sent.
C10_TerminateOnce ==
    /\ pc \in LoopPcs \cup TermPcs => tally.terminate = 0
    /\ (pass # "none" /\ pc \notin LoopPcs \cup TermPcs)
       => /\ tally.terminate = 1
          /\ \/ sent = << >>
             \/ Len(sent) = 1 /\ Count(sent, "terminate") = 1

\* init has returned after both of its assigning passes programmed devices
C10_Witness ==
    /\ top = "init"
    /\ pc = "done"
    /\ pass = "assign_addresses_input"
    /\ programmed \cap LightIds # {}
    /\ programmed \cap InputIds # {}
    /\ tally.terminate = 1

FrameCmd(f) == IF f.len = 24 THEN InputCmd(f) ELSE LightCmd(f)

\* C12: when an assigning pass reaches its first COMPARE it has just sent
\* INITIALISE twice, with payload 0x00 when reset is true and 0xFF when it is
\* false, and then RANDOMISE twice.
C12_OpeningFrames ==
    (pc \in {"aa_top", "in_top"} /\ tally.compare = 0)
    => /\ Len(sent) = 4
       /\ FrameCmd(sent[1]) = "initialise"
       /\ sent[2] = sent[1]
       /\ sent[1].word % 256 = (IF reset THEN 0 ELSE 255)
       /\ FrameCmd(sent[3]) = "randomise"
       /\ sent[4] = sent[3]

\* C13: when add_to_group or remove_from_group has returned for a group g in
\* 0 .. 15, it sent the standard frame with opcode ADD_TO_GROUP + g
\* (REMOVE_FROM_GROUP + g) twice and then the standard frame with
\* QUERY_GEAR_GROUPS_L for g < 8 and QUERY_GEAR_GROUPS_H otherwise;
\* add_to_group returned true exactly when bit g mod 8 of the byte it read is
\* set, remove_from_group exactly when it is clear.
C13_GroupOperation ==
    (top \in {"add_to_group", "remove_from_group"} /\ pc = "done")
    => LET addr == args[1]
           g == args[2]
           base == IF top = "add_to_group" THEN 96 ELSE 112
           byte == resp % 256
           set == (byte \div 2 ^ (g % 8)) % 2 = 1
       IN /\ Len(sent) = 3
          /\ sent[1] = [len |-> 16, word |-> (addr * 2 + 1) * 256 + base + g]
          /\ sent[2] = sent[1]
          /\ sent[3] = [len |-> 16, word |-> (addr * 2 + 1) * 256
                                        + (IF g < 8 THEN 192 ELSE 193)]
          /\ flag = (IF top = "add_to_group" THEN set ELSE ~set)

\* add_to_group for a group of the high byte returned true on an answer byte
\* that has other bits clear
C13_Witness ==
    /\ top = "add_to_group"
    /\ pc = "done"
    /\ args[2] = 15
    /\ resp = 170
    /\ flag

\* random addresses of the devices of a population that are in the
\* initialisation state and not withdrawn
Unwithdrawn(pop) ==
    {pop.devs[d].rand : d \in {e \in DOMAIN pop.devs : pop.devs[e].st = "ENABLED"}}

\* C14: when the loop over bits 23 .. 0 of a pass has finished, searchAddr is
\* the lowest random address among the devices of the population that are
\* not withdrawn.
C14_SearchFindsLowest ==
    pc \in {"gha_confirm", "aa_confirm", "in_confirm"}
    => LET rands == Unwithdrawn(IF pc = "in_confirm" THEN bus.inputs
                                ELSE bus.lights)
       IN /\ searchAddr \in rands
          /\ \A r \in rands : searchAddr <= r

\* the search ended on an address between 0 and 0xFFFFFF with a second device
\* above it
C14_Witness ==
    /\ pc = "aa_confirm"
    /\ searchAddr = 5921370
    /\ Unwithdrawn(bus.lights) = {5921370, FullSearch}

\* C15: when send_command_standard or send_command_direct has sent its frame
\* for an address a in 0 .. 127, the frame's address byte is the encoding of
\* a, the two encodings of a differ only in the lowest bit (1 for standard, 0
\* for direct), and the high bit of the byte is the high bit of a.
C15_EncodingsAgree ==
    (top \in {"send_command_standard", "send_command_direct"} /\ pc = "done"
        /\ args[1] \in 0 .. 127)
    => LET a == args[1]
           byte == sent[1].word \div 256
       IN /\ byte = (IF top = "send_command_standard"
                     THEN StandardByte(a) ELSE DirectByte(a))
          /\ DirectByte(a) % 2 = 0
          /\ StandardByte(a) = DirectByte(a) + 1
          /\ byte \div 128 = a \div 128

\* C16: get_group_addr called with a group number g in 0 .. 15 returns a byte
\* with the high bit set whose low four bits are g; called with such a byte
\* it returns the byte unchanged.
C16_GroupAddress ==
    (top = "get_group_addr" /\ pc = "done")
    => /\ args[1] \in 0 .. 15 => (ret \div 128 = 1 /\ ret % 16 = args[1])
       /\ args[1] \in 128 .. 143 => ret = args[1]

\* the address of group 15 was computed, and so was the address of that
\* address
C16_Witness ==
    /\ top = "get_group_addr"
    /\ pc = "done"
    /\ args \in {<< 15 >>, << 143 >>}
    /\ ret = 143

\* C17: check_response returns false when the value recv() gave is negative,
\* whatever byte is expected, and otherwise true exactly when the value is the
\* expected byte; a pass enters its bit loop, which it does on YES only, only
\* when a device that is not withdrawn is there to have answered.
C17_ResponseChecked ==
    /\ (top = "check_response" /\ pc = "done")
       => flag = (resp >= 0 /\ resp = args[1])
    /\ (pc \in {"gha_bit", "aa_bit"} /\ i = TopBit)
       => Unwithdrawn(bus.lights) # {}
    /\ (pc = "in_bit" /\ i = TopBit) => Unwithdrawn(bus.inputs) # {}

\* YES was expected, nothing answered, and check_response returned false
C17_Witness ==
    /\ top = "check_response"
    /\ pc = "done"
    /\ args = << YES >>
    /\ resp = -1
    /\ ~flag

AssigningPcs ==
    {"aa_start", "aa_top", "aa_bit", "aa_confirm", "aa_refresh", "aa_term",
     "in_start", "in_top", "in_bit", "in_confirm", "in_refresh", "in_term"}

\* C18: in a step of an assigning pass every PROGRAM SHORT ADDRESS frame
\* carries the byte 2 * count + 1 for the count before the step, which is at
\* most 62, is followed at once by WITHDRAW, and the step raises the count by
\* exactly one; no step of the pass lowers the count.
C18_ProgramThenWithdraw ==
    [][LET count == numAssignedShortAddresses IN
       pc \in AssigningPcs
       => (/\ numAssignedShortAddresses' >= count
           /\ \A k \in DOMAIN sent' :
                 (FrameCmd(sent'[k]) = "program")
                 => (/\ count <= 62
                     /\ sent'[k].word % 256 = count * 2 + 1
                     /\ k < Len(sent')
                     /\ FrameCmd(sent'[k + 1]) = "withdraw"
                     /\ numAssignedShortAddresses' = count + 1))]_vars

\* the last address, 62, has just been programmed
C18_Witness ==
    /\ pc \in {"aa_refresh", "in_refresh"}
    /\ Count(sent, "program") = 1
    /\ numAssignedShortAddresses = TableSize

\* the largest member of a set of integers that holds -1
Largest(S) == CHOOSE m \in S : \A n \in S : n <= m

\* C19: get_highest_address sends no PROGRAM SHORT ADDRESS; the step that
\* follows the bit loop sends, after its COMPARE, either nothing or QUERY
\* SHORT ADDRESS and then WITHDRAW; the value returned is the largest of
\* (answer >> 1) over the answers read that were not 0xFF, and -1 when there
\* was none.
C19_HighestAddressReadOnly ==
    pass = "get_highest_address"
    => /\ tally.program = 0
       /\ programmed = {}
       /\ pc = "gha_refresh"
          => \/ Count(sent, "queryshort") = 0 /\ Count(sent, "withdraw") = 0
             \/ /\ Len(sent) = 6
                /\ FrameCmd(sent[5]) = "queryshort"
                /\ FrameCmd(sent[6]) = "withdraw"
       /\ pc = "aa_mark"
          => highest_addr
                = Largest({a \div 2 : a \in answers \ {255}} \cup {-1})

\* the highest address was returned after a lower one and an unaddressed
\* device were read as well
C19_Witness ==
    /\ pass = "get_highest_address"
    /\ pc = "aa_mark"
    /\ answers = {1, 3, 255}
    /\ highest_addr = 1

\* no device of the population held a short address when the call was made
Fresh(pop) == HeldShorts(pop) \subseteq {MASK}

\* C20: in init over L <= 63 lighting and I <= 63 input devices, none of them
\* addressed beforehand and all with pairwise distinct random addresses, the
\* input pass has its own 63 addresses: when an input device answers the
\* COMPARE at the top of the loop, the pass goes on to search for it and never
\* skips it for want of an address, so that the pass comes to an end with
\* every input device addressed, also when L + I > 63.
C20_IndependentSpaces ==
    [][(/\ top = "init"
        /\ pc = "in_top"
        /\ Cardinality(LightIds) <= TableSize
        /\ Cardinality(InputIds) <= TableSize
        /\ Fresh(before.lights) /\ Fresh(before.inputs)
        /\ DistinctRands(bus.lights) /\ DistinctRands(bus.inputs))
       => pc' # "in_refresh"]_vars

\* C21: every read and write of the 63-entry assignedAddresses table uses an
\* index in 0 .. 62: the marking loop of assign_addresses never writes past
\* the end of the table, whatever get_highest_address returned.
C21_TableIndexInBounds == ~outOfBounds

\* C22: add_to_group returns true only when the group query was answered
\* with the group's bit set; when the query got no response it returns false.
C22_AddToGroupTimeout ==
    (top = "add_to_group" /\ pc = "done")
    => /\ flag => (resp >= 0 /\ Bit(resp, args[2] % 8) = 1)
       /\ resp < 0 => ~flag

\* the devices of a population that are in the initialisation state and not
\* withdrawn
EnabledDevs(pop) == {d \in DOMAIN pop.devs : pop.devs[d].st = "ENABLED"}

\* C23: every iteration of the loop of assign_addresses whose opening COMPARE
\* was answered YES withdraws at least one device before the refresh that
\* ends it: the step that leads to the refresh leaves fewer devices that
\* still answer COMPARE than it found.
C23_IterationWithdraws ==
    [][(/\ pass = "assign_addresses"
        /\ ~outOfBounds
        /\ pc \in {"aa_top", "aa_confirm"}
        /\ pc' = "aa_refresh")
       => Cardinality(EnabledDevs(bus'.lights))
             < Cardinality(EnabledDevs(bus.lights))]_vars

\* the address byte of a standard frame to a short address 0 .. 63 or to a
\* group address 128 + g
AddressByte(addr) ==
    IF addr < 64 THEN addr * 2 + 1 ELSE 128 + (addr - 128) * 2 + 1

\* C24: when set_scene, set_fade_time or set_fade_rate has returned it sent
\* exactly three frames: the special DTR0 frame carrying the parameter value,
\* then two identical standard frames to the given address with the opcode
\* SET_SCENE + scene, SET_FADE_TIME or SET_FADE_RATE; and whenever an
\* operation has returned that sends a command twice, the two frames are
\* equal and next to each other.
C24_SettingFrames ==
    /\ (top \in {"set_scene", "set_fade_time", "set_fade_rate"} /\ pc = "done")
       => LET addr == args[1]
              value == args[Len(args)]
              opcode == IF top = "set_scene" THEN 64 + args[2]
                        ELSE IF top = "set_fade_time" THEN 46 ELSE 47
          IN /\ Len(sent) = 3
             /\ sent[1] = [len |-> 16, word |-> 163 * 256 + value]
             /\ sent[2] = [len |-> 16, word |-> AddressByte(addr) * 256 + opcode]
             /\ sent[3] = sent[2]
    /\ (top \in {"add_to_group", "remove_from_group"} /\ pc = "done")
       => (Len(sent) >= 2 /\ sent[1] = sent[2])

\* set_scene returned after storing level 254 as scene 15 of group 15
C24_Witness ==
    /\ top = "set_scene"
    /\ pc = "done"
    /\ args = << 143, 15, 254 >>
    /\ Len(sent) = 3

\* the order of the short addresses follows the order of the random
\* addresses: a device that took part in the pass with a lower random address
\* than a programmed one is programmed too, with a lower short address
OrderedByRand(pop, kind) ==
    \A y \in programmed :
        y[1] = kind
        => \A x \in joined :
              (x[1] = kind /\ pop.devs[x[2]].rand < pop.devs[y[2]].rand)
              => /\ x \in programmed
                 /\ pop.devs[x[2]].short < pop.devs[y[2]].short

C26_TableMatchesCount ==
    /\ (pass = "assign_addresses" /\ pc = "aa_top")
       => \A a \in 0 .. TableSize - 1 :
             assignedAddresses[a] <=> a < numAssignedShortAddresses
    /\ (pass = "assign_addresses" /\ pc = "aa_confirm"
           /\ numAssignedShortAddresses < TableSize)
       => ~assignedAddresses[numAssignedShortAddresses]

\* C27: when set_search_address(val) has returned, for val in 0 .. 0xFFFFFF,
\* it sent exactly three special frames addressed SEARCHADDRH, SEARCHADDRM,
\* SEARCHADDRL in this order, and their data bytes H, M, L give
\* H * 65536 + M * 256 + L = val; set_search_address_input sent three 24-bit
\* frames with leading byte 0xC1 and instance bytes 5, 6, 7 whose data bytes
\* give val in the same way.
C27_SearchAddressFrames ==
    (top \in {"set_search_address", "set_search_address_input"} /\ pc = "done")
    => LET val == args[1]
           data(k) == sent[k].word % 256
           selector(k) == (sent[k].word \div 256) % 256
       IN /\ Len(sent) = 3
          /\ data(1) * 65536 + data(2) * 256 + data(3) = val
          /\ IF top = "set_search_address"
             THEN /\ \A k \in 1 .. 3 : sent[k].len = 16
                  /\ << selector(1), selector(2), selector(3) >>
                        = << 177, 179, 181 >>
                  /\ \A k \in 1 .. 3 : sent[k].word < 65536
             ELSE /\ \A k \in 1 .. 3 : sent[k].len = 24
                  /\ << selector(1), selector(2), selector(3) >> = << 5, 6, 7 >>
                  /\ \A k \in 1 .. 3 : sent[k].word \div 65536 = 193

\* set_search_address returned for a value whose three bytes all differ
C27_Witness ==
    /\ top = "set_search_address"
    /\ pc = "done"
    /\ args = << 1193046 >>
    /\ sent[1].word % 256 = 18
    /\ sent[2].word % 256 = 52
    /\ sent[3].word % 256 = 86

====
